---------------------------- MODULE Spec2Model ----------------------------
(***************************************************************************)
(* A model of the metronome's scheduler loop (app_state.rs), its keyboard  *)
(* thread, the key-sequence recognizer (met_controller.rs), the three      *)
(* modes it drives (met_model.rs, tap_model.rs, set_model.rs), the         *)
(* constructors of the rhythm grid (beat_spec.rs), and the start of the    *)
(* program: the command line (config.rs) and the terminal (main.rs).       *)
(*                                                                         *)
(* Time is a discrete clock `now'; every Instant::now() of the code reads  *)
(* it.  Successive reads may return the same instant (Instant is monotonic *)
(* but not strictly increasing) and the clock may advance between any two  *)
(* steps of the loop.  Durations are counted in clock units, Minute of     *)
(* them making sixty seconds.  Volume is counted in tenths.                *)
(***************************************************************************)
EXTENDS Integers, Sequences, FiniteSets, TLC

VARIABLES
    now,         \* the clock read by Instant::now()
    pc,          \* position of the main loop within state_loop
    outcome,     \* how state_loop ended, "none" while it runs
    state,       \* state_opt: the active mode and its fields
    tick_time,   \* StateManager.tick_time
    start_time,  \* start_time of the current iteration
    key,         \* the Result bound to `key' at line 99
    chan,        \* messages in flight on the keyboard channel
    kbd,         \* the keyboard thread: "reading" or "returned"
    nread,       \* number of read_exact calls that returned a byte
    iter_tt,     \* history: tick_time when the current iteration began
    hist,        \* history: the last handler call
    ops,         \* history: the last two operations made on the timer
    sent,        \* history: the instant each message in flight was sent
    played,      \* history: the grid cells the Metronome has played
    built,       \* a BeatSpec constructor call: its input, what it gave, and
                 \* what make_divisible(target) gave for that grid; and whether
                 \* the build checks arithmetic overflow
    ctl,         \* a ControllerState: its mapping and partial buffer, the
                 \* bytes sent to it and what the last send gave
    run,         \* run() of main.rs: its position, its arguments, what
                 \* Config::new gave, the terminal's mode and how it ended
    call         \* the last handler call made on the modes studied on their
                 \* own: the mode's fields before it, the key, what it gave

vars == <<now, pc, outcome, state, tick_time, start_time, key, chan, kbd,
          nread, iter_tt, hist, ops, sent, played, built, ctl, run, call>>

-----------------------------------------------------------------------------
(* Bounds of the model *)

\* Instants run from 0 to MaxTime.
MaxTime == 3

\* The keyboard thread reads at most MaxKeys bytes before stdin closes.
MaxKeys == 3

\* Instants run from 0 to MaxQuietTime while the keyboard stays silent.
MaxQuietTime == 8

\* Crossbeat lists have at most MaxBeats beats, each from 1 to MaxBeat.
MaxBeats == 3
MaxBeat == 6

\* from_subdiv is given 1 to MaxBeat beats of 1 to MaxSubdiv subdivisions.
MaxSubdiv == 4

\* Rhythm specs have at most MaxSpecLen characters.
MaxSpecLen == 4
\* make_divisible is asked for multiples of 1..MaxTarget.
MaxTarget == 3
\* At most MaxFeed bytes are sent to a controller studied on its own.
MaxFeed == 4
\* At most MaxCalls handler calls are made on the modes studied on their own,
\* at instants up to MaxModeTime.
MaxCalls == 6
MaxModeTime == 2

\* Clock units per minute (the resolution of the model's clock).
Minute == 300

\* The bytes stdin may deliver: p P space . , ' q
InputBytes == {112, 80, 32, 46, 44, 39, 113}

-----------------------------------------------------------------------------
(* constants.rs *)

DEF_TEMPO == 120
DEF_VOLUME == 5
VOL_ADJUST == 1
VOL_MIN == 0
VOL_MAX == 10
TEMPO_ADJUST == 1
TEMPO_MIN == 10
TEMPO_MAX == 300
DEF_BEATS_PER_MEASURE == 4
DEF_SUBDIV_PER_BEAT == 1

-----------------------------------------------------------------------------
(* beat_spec.rs.  A constructor gives a BeatSpec, kind "Ok" with its ticks  *)
(* and beat_len, or the way it ended otherwise: a panic ("IndexOutOfBounds",*)
(* "DivideByZero", "AssertFailed", "MulOverflow") or the error of           *)
(* from_rhythmspec ("Err", with the offending character).  The numbers are  *)
(* u32: a product is taken byte by byte, so that it wraps at 2^32 as the    *)
(* machine's does; the values themselves stay below 2^31.                   *)

Rest == [kind |-> "Rest", n |-> 0]
Beep(n) == [kind |-> "Beep", n |-> n]

BeatSpec(ticks, beat_len) ==
    [kind |-> "Ok", ticks |-> ticks, beat_len |-> beat_len, ch |-> 0]
Panic(why) == [kind |-> why, ticks |-> <<>>, beat_len |-> 0, ch |-> 0]

\* Faulty variant: the error does not say which character it was.
Err_anonymous(c) == [kind |-> "Err", ticks |-> <<>>, beat_len |-> 0, ch |-> 0]

Err(c) == [kind |-> "Err", ticks |-> <<>>, beat_len |-> 0, ch |-> c]

\* The i-th byte of a u32, the lowest being byte 0.
Byte(a, i) == (a \div (256 ^ i)) % 256

\* Column k of the long multiplication of a and b, from byte i of a on.
RECURSIVE column_from(_, _, _, _)
column_from(a, b, k, i) ==
    IF i > 3 \/ i > k
    THEN 0
    ELSE (IF k - i <= 3 THEN Byte(a, i) * Byte(b, k - i) ELSE 0)
         + column_from(a, b, k, i + 1)

\* Column k with the carry of the columns below it.
RECURSIVE carried(_, _, _)
carried(a, b, k) ==
    column_from(a, b, k, 0) + (IF k = 0 THEN 0 ELSE carried(a, b, k - 1) \div 256)

\* u32::overflowing_mul: the low 32 bits of the product, and whether any
\* higher bit was lost.
overflowing_mul(a, b) ==
    [value |-> (carried(a, b, 0) % 256)
               + (carried(a, b, 1) % 256) * 256
               + (carried(a, b, 2) % 256) * 65536
               + (carried(a, b, 3) % 256) * 16777216,
     overflow |-> \E k \in 4..6 : carried(a, b, k) # 0]

\* The operator * on u32.  A build with overflow checks (the debug profile)
\* panics when bits are lost, which is -2 here; a build without them (the
\* release profile) goes on with the wrapped value.  Two small factors
\* lose no bits.
mul(a, b) ==
    IF a < 32768 /\ b < 65536
    THEN a * b
    ELSE IF overflowing_mul(a, b).overflow /\ built.overflow_checks
    THEN -2
    ELSE overflowing_mul(a, b).value

RECURSIVE euclid(_, _)
euclid(a, b) == IF b = 0 THEN a ELSE euclid(b, a % b)

\* The loop of lcm from the i-th number on; -1 once a division by zero
\* has panicked, -2 once a multiplication has.
RECURSIVE lcm_from(_, _, _)
lcm_from(acc, nums, i) ==
    IF i > Len(nums) \/ acc < 0
    THEN acc
    ELSE IF euclid(acc, nums[i]) = 0
    THEN -1
    ELSE lcm_from(mul(acc, nums[i] \div euclid(acc, nums[i])), nums, i + 1)

\* Faulty variant: the product of the numbers.
RECURSIVE product_from(_, _)
product_from(nums, i) ==
    IF i > Len(nums) THEN 1 ELSE nums[i] * product_from(nums, i + 1)

lcm_as_product(nums) == product_from(nums, 1)

lcm(nums) == lcm_from(1, nums, 1)

\* Faulty variant: no implicit crossbeat.
without_downbeat(b) == b

\* Lines 58-62: the implicit crossbeat of 1 comes first.
with_downbeat(b) == <<1>> \o b

\* Faulty variant: the last crossbeat that falls on the tick wins.
event_last_wins(beats, n_ticks, tick) ==
    LET hits == {n \in DOMAIN beats : tick % (n_ticks \div beats[n]) = 0}
    IN  IF hits = {}
        THEN Rest
        ELSE Beep((CHOOSE n \in hits : \A m \in hits : m <= n) - 1)

\* Lines 69-77 from the n-th beat on: the first beat that falls on the tick.
RECURSIVE event_from(_, _, _, _)
event_from(beats, n_ticks, tick, n) ==
    IF n > Len(beats)
    THEN Rest
    ELSE IF n_ticks % beats[n] # 0
    THEN Panic("AssertFailed")
    ELSE IF tick % (n_ticks \div beats[n]) = 0
    THEN Beep(n - 1)
    ELSE event_from(beats, n_ticks, tick, n + 1)

event(beats, n_ticks, tick) == event_from(beats, n_ticks, tick, 1)

from_crossbeats(b) ==
    LET beats == with_downbeat(b)
        n_ticks == lcm(beats)
        ticks == [t \in 1..n_ticks |-> event(beats, n_ticks, t - 1)]
    IN  IF n_ticks = -1
        THEN Panic("DivideByZero")
        ELSE IF n_ticks = -2
        THEN Panic("MulOverflow")
        ELSE IF \E t \in 1..n_ticks : ticks[t].kind = "AssertFailed"
        THEN Panic("AssertFailed")
        ELSE IF Len(beats) < 2
        THEN Panic("IndexOutOfBounds")
        ELSE IF beats[2] = 0
        THEN Panic("DivideByZero")
        ELSE BeatSpec(ticks, n_ticks \div beats[2])

\* Faulty variant: the subdivisions are not multiplied by the beats.
from_subdiv_unscaled(beats, subdiv) == from_crossbeats(<<beats, subdiv>>)

from_subdiv(beats, subdiv) ==
    IF mul(beats, subdiv) = -2
    THEN Panic("MulOverflow")
    ELSE from_crossbeats(<<beats, mul(beats, subdiv)>>)

\* The loop of from_rhythmspec after n characters; a rhythm spec is the
\* sequence of its characters' codes.
RECURSIVE rhythmspec_from(_, _, _, _)
rhythmspec_from(spec, n, ticks, beat_len) ==
    IF n = Len(spec)
    THEN BeatSpec(ticks, beat_len)
    ELSE LET c == spec[n + 1]
         IN  IF 48 <= c /\ c <= 57
             THEN rhythmspec_from(spec, n + 1, Append(ticks, Beep(c - 48)), beat_len)
             ELSE IF c = 46
             THEN rhythmspec_from(spec, n + 1, Append(ticks, Rest), beat_len)
             ELSE IF c = 33
             THEN rhythmspec_from(spec, n + 1, ticks, n)
             ELSE Err(c)

from_rhythmspec(spec) == rhythmspec_from(spec, 0, <<>>, 1)

\* Faulty variant: the inserted ticks repeat the tick before them.
make_divisible_repeating(bs, value) ==
    LET g == euclid(bs.beat_len, value)
        factor == IF g = 0 THEN 0 ELSE value \div g
        stride == IF factor = 0 THEN 1 ELSE factor
    IN  IF g = 0
        THEN Panic("DivideByZero")
        ELSE BeatSpec([j \in 1..(Len(bs.ticks) * stride) |->
                          bs.ticks[((j - 1) \div stride) + 1]],
                      mul(bs.beat_len, factor))

\* Lines 121-139: each tick is followed by factor - 1 Rests (by none when
\* factor is 0 or 1), so tick j of the result is an original tick when
\* j - 1 is a multiple of the stride, and a Rest otherwise.
make_divisible(bs, value) ==
    LET n_ticks == bs.beat_len
        g == euclid(n_ticks, value)
        factor == IF g = 0 THEN 0 ELSE value \div g
        stride == IF factor = 0 THEN 1 ELSE factor
    IN  IF g = 0
        THEN Panic("DivideByZero")
        ELSE IF mul(bs.beat_len, factor) = -2
        THEN Panic("MulOverflow")
        ELSE BeatSpec([j \in 1..(Len(bs.ticks) * stride) |->
                          IF (j - 1) % stride = 0
                          THEN bs.ticks[((j - 1) \div stride) + 1]
                          ELSE Rest],
                      mul(bs.beat_len, factor))

\* The rhythm every mode carries: the default from_subdiv(4, 1) grid, four
\* ticks with a beat of one tick.
rhythm == from_subdiv(DEF_BEATS_PER_MEASURE, DEF_SUBDIV_PER_BEAT)

-----------------------------------------------------------------------------
(* TickTime, Keycode, StateTransition, TickCommand *)

TT_None == [kind |-> "None", v |-> 0]
TT_Time(t) == [kind |-> "Time", v |-> t]
TT_Paused(d) == [kind |-> "Paused", v |-> d]

Key(b) == [kind |-> "Key", b |-> b]
NoKey == [kind |-> "NoKey", b |-> 0]
\* The two failures of recv_timeout, and the value of `key' outside an iteration.
Timeout == [kind |-> "Timeout", b |-> 0]
Disconnected == [kind |-> "Disconnected", b |-> 0]
Unread == [kind |-> "none", b |-> 0]

NoChange == [kind |-> "NoChange"]
Exit == [kind |-> "Exit"]
To(s) == [kind |-> "To", state |-> s]

Cmd(k, d) == [kind |-> k, d |-> d]
CmdNone == Cmd("None", 0)
CmdSet(d) == Cmd("Set", d)
CmdUnset == Cmd("Unset", 0)
CmdPause == Cmd("Pause", 0)
CmdResume == Cmd("Resume", 0)
CmdToggle == Cmd("Toggle", 0)


-----------------------------------------------------------------------------
(* StateManager: the timer.  Each operator gives the tick_time the method  *)
(* leaves, from the tick_time tt it finds and the instant n it reads;      *)
(* Panicked stands for the method's panic!.                                *)

Panicked == [kind |-> "Panicked", v |-> 0]

\* Faulty variant: no initial tick is scheduled.
StateManager_new_unscheduled(n) == TT_None

\* StateManager::new: an immediate tick for the first state to initialize.
StateManager_new(n) == TT_Time(n)

\* set_state: an immediate tick for the new state to initialize.
set_state(tt, n) == TT_Time(n)

\* Faulty variant: a paused timer stays paused.
set_tick_keeps_pause(tt, n, d) ==
    IF tt.kind = "Paused" THEN tt ELSE TT_Time(n + d)

set_tick(tt, n, d) == TT_Time(n + d)

unset_tick(tt) == TT_None

\* Faulty variant: the remaining time is not clamped at zero.
pause_unclamped(tt, n) ==
    IF tt.kind = "Time" THEN TT_Paused(tt.v - n) ELSE tt

\* checked_duration_since(now), None replaced by the zero duration.
pause(tt, n) ==
    IF tt.kind = "Time"
    THEN TT_Paused(IF tt.v >= n THEN tt.v - n ELSE 0)
    ELSE tt

\* Faulty variant: the remaining time is dropped.
resume_drops_remaining(tt, n) ==
    IF tt.kind = "Paused" THEN TT_Time(n) ELSE Panicked

resume(tt, n) ==
    IF tt.kind = "Paused" THEN TT_Time(n + tt.v) ELSE Panicked

\* Faulty variant: a paused timer is paused again instead of resumed.
toggle_paused_never_resumes(tt, n) ==
    IF tt.kind = "Paused" \/ tt.kind = "Time" THEN pause(tt, n) ELSE Panicked

toggle_paused(tt, n) ==
    IF tt.kind = "Paused" THEN resume(tt, n)
    ELSE IF tt.kind = "Time" THEN pause(tt, n)
    ELSE Panicked

-----------------------------------------------------------------------------
(* met_controller.rs: the key-sequence recognizer *)

Msg(k, x) == [kind |-> k, x |-> x]
NoMsg == Msg("none", 0)

\* SetMode(None) is Msg("SetMode", -1); SetMode(Some(d)) is Msg("SetMode", d).
init_keybindings ==
    << <<(<<112>>), Msg("Pause", 0)>>,
       <<(<<80>>), Msg("Play", 0)>>,
       <<(<<32>>), Msg("Toggle", 0)>>,
       <<(<<46>>), Msg("Sync", 0)>>,
       <<(<<44>>), Msg("TapMode", 0)>>,
       <<(<<39>>), Msg("SetMode", -1)>>,
       <<(<<113>>), Msg("Quit", 0)>>,
       <<(<<3>>), Msg("Quit", 0)>>,
       <<(<<27, 91, 65>>), Msg("AdjustVolume", VOL_ADJUST)>>,
       <<(<<27, 91, 66>>), Msg("AdjustVolume", -VOL_ADJUST)>>,
       <<(<<27, 91, 67>>), Msg("AdjustTempo", TEMPO_ADJUST)>>,
       <<(<<27, 91, 68>>), Msg("AdjustTempo", -TEMPO_ADJUST)>>,
       <<(<<107>>), Msg("AdjustVolume", VOL_ADJUST)>>,
       <<(<<106>>), Msg("AdjustVolume", -VOL_ADJUST)>>,
       <<(<<108>>), Msg("AdjustTempo", TEMPO_ADJUST)>>,
       <<(<<104>>), Msg("AdjustTempo", -TEMPO_ADJUST)>>,
       <<(<<16>>), Msg("AdjustVolume", VOL_ADJUST)>>,
       <<(<<14>>), Msg("AdjustVolume", -VOL_ADJUST)>>,
       <<(<<6>>), Msg("AdjustTempo", TEMPO_ADJUST)>>,
       <<(<<2>>), Msg("AdjustTempo", -TEMPO_ADJUST)>> >>
    \o [c \in 1..10 |-> <<(<<47 + c>>), Msg("SetMode", c - 1)>>]

starts_with(b, q) == Len(q) <= Len(b) /\ SubSeq(b, 1, Len(q)) = q

\* Faulty variant: a queue that begins a longer binding is always a Start.
get_binding_longest(queue, bindings) ==
    LET exact == {i \in DOMAIN bindings : bindings[i][1] = queue}
        first == CHOOSE i \in exact : \A j \in exact : i <= j
    IN  IF \E i \in DOMAIN bindings :
              starts_with(bindings[i][1], queue) /\ bindings[i][1] # queue
        THEN [kind |-> "Start", msg |-> NoMsg]
        ELSE IF exact # {}
        THEN [kind |-> "Complete", msg |-> bindings[first][2]]
        ELSE [kind |-> "Invalid", msg |-> NoMsg]

\* The first binding equal to the queue wins; failing that, Start if the
\* queue begins some binding, and Invalid otherwise.
get_binding(queue, bindings) ==
    LET exact == {i \in DOMAIN bindings : bindings[i][1] = queue}
        first == CHOOSE i \in exact : \A j \in exact : i <= j
    IN  IF exact # {}
        THEN [kind |-> "Complete", msg |-> bindings[first][2]]
        ELSE IF \E i \in DOMAIN bindings : starts_with(bindings[i][1], queue)
             THEN [kind |-> "Start", msg |-> NoMsg]
             ELSE [kind |-> "Invalid", msg |-> NoMsg]

\* Faulty variant: an Invalid sequence stays in the buffer.
send_keeps_invalid(mapping, partial, k) ==
    LET p == Append(partial, k)
        r == get_binding(p, mapping)
    IN  CASE r.kind = "Invalid" -> [partial |-> p, msg |-> NoMsg]
          [] r.kind = "Start" -> [partial |-> p, msg |-> NoMsg]
          [] r.kind = "Complete" -> [partial |-> <<>>, msg |-> r.msg]

\* Faulty variant: a Complete sequence stays in the buffer.
send_keeps_complete(mapping, partial, k) ==
    LET p == Append(partial, k)
        r == get_binding(p, mapping)
    IN  CASE r.kind = "Invalid" -> [partial |-> <<>>, msg |-> NoMsg]
          [] r.kind = "Start" -> [partial |-> p, msg |-> NoMsg]
          [] r.kind = "Complete" -> [partial |-> p, msg |-> r.msg]

\* Faulty variant: the buffer is never emptied.
send_never_clears(mapping, partial, k) ==
    LET p == Append(partial, k)
        r == get_binding(p, mapping)
    IN  [partial |-> p, msg |-> r.msg]

\* ControllerState::send on a controller with the given mapping: the partial
\* buffer it leaves and the message, if any.
send(mapping, partial, k) ==
    LET p == Append(partial, k)
        r == get_binding(p, mapping)
    IN  CASE r.kind = "Invalid" -> [partial |-> <<>>, msg |-> NoMsg]
          [] r.kind = "Start" -> [partial |-> p, msg |-> NoMsg]
          [] r.kind = "Complete" -> [partial |-> <<>>, msg |-> r.msg]

\* send on a controller made by ControllerState::new, as the modes hold it.
ControllerState_send(partial, k) == send(init_keybindings, partial, k)

-----------------------------------------------------------------------------
(* The modes.  A handler gives the mode's fields as it leaves them, the    *)
(* StateTransition and TickCommand it returns, and the panic it ends in,   *)
(* if any ("none" otherwise).                                              *)

Ret(s, trans, cmd) == [state |-> s, trans |-> trans, cmd |-> cmd, fail |-> "none"]
Fail(s, f) == [state |-> s, trans |-> NoChange, cmd |-> CmdNone, fail |-> f]

\* Faulty variant: the mode starts from the default grid and volume.
MetronomeState_new_default(bs, volume, tempo) ==
    [mode |-> "Metronome", rhythm |-> rhythm, tick_number |-> 0,
     volume |-> DEF_VOLUME, tempo |-> tempo, partial |-> <<>>]

MetronomeState_new(bs, volume, tempo) ==
    [mode |-> "Metronome", rhythm |-> bs, tick_number |-> 0, volume |-> volume,
     tempo |-> tempo, partial |-> <<>>]

TapState_new(bs, volume, n) ==
    [mode |-> "Tap", times |-> <<n>>, rhythm |-> bs, volume |-> volume]

SetState_new(bs, volume) ==
    [mode |-> "Set", tempo |-> 0, rhythm |-> bs, volume |-> volume]

\* get_delay and seconds: sixty seconds over tempo * beat_len, truncated to
\* the clock's resolution.  A tempo of 0 makes the quotient infinite, and
\* seconds() then overflows adding the two Durations.
get_delay(bs, tempo) == Minute \div (tempo * bs.beat_len)

\* Faulty variant: the tick index does not wrap.
MetronomeState_tick_no_wrap(s) ==
    Ret([s EXCEPT !.tick_number = s.tick_number + 1], NoChange,
        CmdSet(get_delay(s.rhythm, s.tempo)))

MetronomeState_tick(s) ==
    LET s1 == [s EXCEPT !.tick_number = (s.tick_number + 1) % Len(s.rhythm.ticks)]
    IN  IF s.tempo = 0
        THEN Fail(s1, "DurationOverflow")
        ELSE Ret(s1, NoChange, CmdSet(get_delay(s.rhythm, s.tempo)))

\* The SetMode arm of MetronomeState::keypress: Set mode is entered with the
\* volume carried over and the first digit, if any, already typed.
EnterSetMode(s, digit) ==
    Ret(s,
        To([SetState_new(s.rhythm, s.volume) EXCEPT !.tempo = IF digit < 0 THEN 0 ELSE digit]),
        CmdSet(0))

\* Faulty variant: the volume and the tempo are not clamped.
MetronomeState_keypress_unclamped(s, k, n) ==
    IF k.kind # "Key"
    THEN Ret(s, Exit, CmdNone)
    ELSE
    LET r == ControllerState_send(s.partial, k.b)
        s1 == [s EXCEPT !.partial = r.partial]
        cmd == r.msg
    IN  CASE cmd.kind = "none" -> Ret(s1, NoChange, CmdNone)
          [] cmd.kind = "Pause" -> Ret(s1, NoChange, CmdPause)
          [] cmd.kind = "Play" -> Ret(s1, NoChange, CmdResume)
          [] cmd.kind = "Toggle" -> Ret(s1, NoChange, CmdToggle)
          [] cmd.kind = "AdjustVolume" ->
                Ret([s1 EXCEPT !.volume = s1.volume + cmd.x], NoChange, CmdNone)
          [] cmd.kind = "AdjustTempo" ->
                Ret([s1 EXCEPT !.tempo = s1.tempo + cmd.x], NoChange, CmdNone)
          [] cmd.kind = "Sync" ->
                Ret([s1 EXCEPT !.tick_number = 0], NoChange, CmdSet(0))
          [] cmd.kind = "TapMode" ->
                Ret(s1, To(TapState_new(s1.rhythm, s1.volume, n)), CmdSet(0))
          [] cmd.kind = "SetMode" -> EnterSetMode(s1, cmd.x)
          [] cmd.kind = "Quit" -> Ret(s1, Exit, CmdNone)

MetronomeState_keypress(s, k, n) ==
    IF k.kind # "Key"
    THEN Ret(s, Exit, CmdNone)
    ELSE
    LET r == ControllerState_send(s.partial, k.b)
        s1 == [s EXCEPT !.partial = r.partial]
        cmd == r.msg
    IN  CASE cmd.kind = "none" -> Ret(s1, NoChange, CmdNone)
          [] cmd.kind = "Pause" -> Ret(s1, NoChange, CmdPause)
          [] cmd.kind = "Play" -> Ret(s1, NoChange, CmdResume)
          [] cmd.kind = "Toggle" -> Ret(s1, NoChange, CmdToggle)
          [] cmd.kind = "AdjustVolume" ->
                LET v == s1.volume + cmd.x
                IN  Ret([s1 EXCEPT !.volume = IF v < 0 THEN 0
                                              ELSE IF v > 10 THEN 10 ELSE v],
                        NoChange, CmdNone)
          [] cmd.kind = "AdjustTempo" ->
                LET t == s1.tempo + cmd.x
                IN  Ret([s1 EXCEPT !.tempo = IF t < TEMPO_MIN THEN TEMPO_MIN
                                             ELSE IF t > TEMPO_MAX THEN TEMPO_MAX
                                             ELSE t],
                        NoChange, CmdNone)
          [] cmd.kind = "Sync" ->
                Ret([s1 EXCEPT !.tick_number = 0], NoChange, CmdSet(0))
          [] cmd.kind = "TapMode" ->
                Ret(s1, To(TapState_new(s1.rhythm, s1.volume, n)), CmdSet(0))
          [] cmd.kind = "SetMode" -> EnterSetMode(s1, cmd.x)
          [] cmd.kind = "Quit" -> Ret(s1, Exit, CmdNone)

\* TapState::calc_tempo: none with fewer than two taps; else a minute over
\* the mean interval, both divisions truncating.  The second division
\* panics when the mean interval is zero.
calc_tempo(times) ==
    IF Len(times) < 2
    THEN [kind |-> "None", v |-> 0]
    ELSE LET time_delta == times[Len(times)] - times[1]
             time_per_event == time_delta \div (Len(times) - 1)
         IN  IF time_per_event = 0
             THEN [kind |-> "DivideByZero", v |-> 0]
             ELSE [kind |-> "Some", v |-> Minute \div time_per_event]

TapState_exit(s) ==
    LET t == calc_tempo(s.times)
    IN  IF t.kind = "DivideByZero"
        THEN Fail(s, "DivideByZero")
        ELSE Ret(s,
                 To(MetronomeState_new(s.rhythm, s.volume,
                        IF t.kind = "None" THEN DEF_TEMPO ELSE t.v)),
                 CmdSet(0))

TapState_tick(s) == Ret(s, NoChange, CmdUnset)

TapState_keypress(s, k, n) ==
    IF k.kind = "Key" /\ k.b = 44
    THEN Ret([s EXCEPT !.times = Append(s.times, n)], NoChange, CmdUnset)
    ELSE IF k.kind = "Key" /\ k.b = 3
    THEN Ret(s, Exit, CmdUnset)
    ELSE TapState_exit(s)

SetState_exit(s) ==
    Ret(s, To(MetronomeState_new(s.rhythm, s.volume, s.tempo)), CmdSet(0))

SetState_tick(s) == Ret(s, NoChange, CmdUnset)

\* Faulty variant: the mode submits only once the tempo typed is itself above
\* TEMPO_MAX.
SetState_keypress_late(s, k, n) ==
    IF k.kind = "NoKey" \/ (k.kind = "Key" /\ k.b = 3)
    THEN Ret(s, Exit, CmdUnset)
    ELSE IF 48 <= k.b /\ k.b < 57
    THEN LET s1 == [s EXCEPT !.tempo = s.tempo * 10 + (k.b - 48)]
         IN  IF s1.tempo > TEMPO_MAX
             THEN SetState_exit(s1)
             ELSE Ret(s1, NoChange, CmdUnset)
    ELSE SetState_exit(s)

\* The digit test is the half-open range b'0'..b'9'.
SetState_keypress(s, k, n) ==
    IF k.kind = "NoKey" \/ (k.kind = "Key" /\ k.b = 3)
    THEN Ret(s, Exit, CmdUnset)
    ELSE IF 48 <= k.b /\ k.b < 57
    THEN LET s1 == [s EXCEPT !.tempo = s.tempo * 10 + (k.b - 48)]
         IN  IF s1.tempo * 10 > TEMPO_MAX
             THEN SetState_exit(s1)
             ELSE Ret(s1, NoChange, CmdUnset)
    ELSE SetState_exit(s)

\* AppState dispatch.
AppState_tick(s) ==
    CASE s.mode = "Metronome" -> MetronomeState_tick(s)
      [] s.mode = "Tap" -> TapState_tick(s)
      [] s.mode = "Set" -> SetState_tick(s)

AppState_keypress(s, k, n) ==
    CASE s.mode = "Metronome" -> MetronomeState_keypress(s, k, n)
      [] s.mode = "Tap" -> TapState_keypress(s, k, n)
      [] s.mode = "Set" -> SetState_keypress(s, k, n)

-----------------------------------------------------------------------------
(* History of the timer and of the handler calls *)

TimerOp(name, pre, n, post) == [name |-> name, pre |-> pre, at |-> n, post |-> post]
NoOp == TimerOp("none", TT_None, 0, TT_None)

\* ops[1] is the operation before the last, ops[2] the last.
Push(os, o) == <<os[2], o>>

NoCall ==
    [op |-> "none", mode |-> "none", key |-> Unread, iter_tt |-> TT_None,
     pre |-> TT_None, trans |-> "NoChange", cmd |-> CmdNone, at |-> 0,
     post |-> TT_None, index |-> 0]

\* The tick index a handler finds: the Metronome's tick_number, 0 elsewhere.
TickIndex(s) == IF s.mode = "Metronome" THEN s.tick_number ELSE 0

-----------------------------------------------------------------------------
(* Applying what a handler returns: the transition first (set_state        *)
(* schedules the new mode's initialization tick), then the timer command,  *)
(* which may override it.                                                  *)

apply_transition(tt, trans, n) ==
    IF trans.kind = "To" THEN set_state(tt, n) ELSE tt

apply_command(tt, cmd, n) ==
    CASE cmd.kind = "None" -> tt
      [] cmd.kind = "Set" -> set_tick(tt, n, cmd.d)
      [] cmd.kind = "Unset" -> unset_tick(tt)
      [] cmd.kind = "Pause" -> pause(tt, n)
      [] cmd.kind = "Resume" -> resume(tt, n)
      [] cmd.kind = "Toggle" -> toggle_paused(tt, n)

\* The rest of an iteration once the handler has returned r (lines 117-126).
Dispatch(op, r) ==
    LET tt1 == apply_transition(tick_time, r.trans, now)
        tt2 == apply_command(tt1, r.cmd, now)
        ops1 == IF r.trans.kind = "To"
                THEN Push(ops, TimerOp("set_state", tick_time, now, tt1))
                ELSE ops
        ops2 == IF r.cmd.kind # "None"
                THEN Push(ops1, TimerOp(r.cmd.kind, tt1, now, tt2))
                ELSE ops1
    IN  IF r.fail # "none"
        THEN /\ outcome' = r.fail
             /\ pc' = "done"
             /\ state' = r.state
             /\ hist' = [op |-> op, mode |-> state.mode, key |-> key,
                         iter_tt |-> iter_tt, pre |-> tick_time,
                         trans |-> "NoChange", cmd |-> CmdNone, at |-> now,
                         post |-> tick_time, index |-> TickIndex(state)]
             /\ UNCHANGED <<tick_time, ops>>
        ELSE /\ hist' = [op |-> op, mode |-> state.mode, key |-> key,
                         iter_tt |-> iter_tt, pre |-> tick_time,
                         trans |-> r.trans.kind, cmd |-> r.cmd, at |-> now,
                         post |-> tt2, index |-> TickIndex(state)]
             /\ ops' = ops2
             /\ IF tt2 = Panicked
                THEN /\ outcome' = "InvalidState"
                     /\ pc' = "done"
                     /\ tick_time' = tt1
                     /\ state' = r.state
                ELSE /\ tick_time' = tt2
                     /\ state' = IF r.trans.kind = "To" THEN r.trans.state ELSE r.state
                     /\ pc' = IF r.trans.kind = "Exit" THEN "done" ELSE "start"
                     /\ outcome' = IF r.trans.kind = "Exit" THEN "Ok" ELSE "none"

\* The value of `ctl' where no controller is studied on its own.
NoCtl ==
    [mapping |-> <<>>, fed |-> <<>>, prev |-> <<>>, partial |-> <<>>,
     msg |-> NoMsg, res |-> "none"]

\* The value of `run' where the scheduler is studied on its own.
NoRun ==
    [pc |-> "none", args |-> <<>>, cfg |-> "none", term |-> "raw", s |-> "none",
     result |-> "none", raw_seen |-> TRUE, loop_seen |-> TRUE,
     restore_failed |-> FALSE]

\* The value of `call' before any call, and where the modes run under
\* the scheduler.
NoModeCall ==
    [op |-> "none", key |-> Unread, at |-> 0, state |-> [mode |-> "none"],
     ret |-> Ret([mode |-> "none"], NoChange, CmdNone)]

\* No constructor call is under study while the scheduler runs.
NoBuild ==
    [fn |-> "none", arg |-> <<>>, ret |-> [kind |-> "none"], target |-> 1,
     div |-> [kind |-> "none"], overflow_checks |-> TRUE]

-----------------------------------------------------------------------------
(* The program *)

Init ==
    /\ now = 0
    /\ pc = "start"
    /\ outcome = "none"
    /\ state = MetronomeState_new(rhythm, DEF_VOLUME, DEF_TEMPO)
    /\ call = NoModeCall
    /\ tick_time = StateManager_new(0)
    /\ start_time = 0
    /\ key = Unread
    /\ chan = <<>>
    /\ kbd = "reading"
    /\ nread = 0
    /\ iter_tt = TT_None
    /\ hist = NoCall
    /\ ops = <<NoOp, NoOp>>
    /\ sent = <<>>
    /\ played = <<>>
    /\ built = NoBuild
    /\ ctl = NoCtl
    /\ run = NoRun

\* The clock advances, up to the instant limit.
Elapse(limit) ==
    /\ outcome = "none"
    /\ now < limit
    /\ now' = now + 1
    /\ UNCHANGED <<pc, outcome, state, tick_time, start_time, key, chan, kbd,
                   nread, iter_tt, hist, ops, sent, played, built, ctl, run,
                   call>>

Advance == Elapse(MaxTime)

\* The keyboard thread reads one of the bytes B and sends it.
Read(B) ==
    /\ outcome = "none"
    /\ kbd = "reading"
    /\ nread < MaxKeys
    /\ \E b \in B : chan' = Append(chan, Key(b))
    /\ nread' = nread + 1
    /\ UNCHANGED <<now, pc, outcome, state, tick_time, start_time, key, kbd,
                   iter_tt, hist, ops, played, built, ctl, run, call>>

KbdRead == Read(InputBytes) /\ UNCHANGED sent

\* read_exact fails (stdin closed): the thread sends NoKey and returns,
\* dropping the Sender.
ReadFails ==
    /\ outcome = "none"
    /\ kbd = "reading"
    /\ chan' = Append(chan, NoKey)
    /\ kbd' = "returned"
    /\ UNCHANGED <<now, pc, outcome, state, tick_time, start_time, key, nread,
                   iter_tt, hist, ops, played, built, ctl, run, call>>

KbdEOF == ReadFails /\ UNCHANGED sent

\* Line 98: the iteration begins and reads the clock.
LoopStart ==
    /\ pc = "start"
    /\ start_time' = now
    /\ iter_tt' = tick_time
    /\ key' = Unread
    /\ pc' = "recv"
    /\ UNCHANGED <<now, outcome, state, tick_time, chan, kbd, nread, hist, ops,
                   sent, played, built, ctl, run, call>>

\* Faulty variant: the time left saturates at zero, so the loop always waits.
HasRemaining_saturating == tick_time.kind = "Time"

\* tick_time.checked_duration_since(start_time) is Some.
HasRemaining == tick_time.kind = "Time" /\ tick_time.v >= start_time

\* recv_timeout or recv returns a message.
Recv ==
    /\ pc = "recv"
    /\ tick_time.kind = "Time" => HasRemaining
    /\ chan # <<>>
    /\ key' = Head(chan)
    /\ chan' = Tail(chan)
    /\ pc' = IF tick_time.kind = "Time" THEN "check" ELSE "handle"
    /\ UNCHANGED <<now, outcome, state, tick_time, start_time, kbd, nread,
                   iter_tt, hist, ops, played, built, ctl, run, call>>

RecvKey == Recv /\ UNCHANGED sent

\* Faulty variant: the wait times out at the wake instant even when a
\* message is waiting.
RecvTimeout_overlooks_message ==
    /\ pc = "recv"
    /\ tick_time.kind = "Time"
    /\ \/ ~HasRemaining
       \/ now >= tick_time.v
    /\ key' = Timeout
    /\ pc' = "check"
    /\ UNCHANGED <<now, outcome, state, tick_time, start_time, chan, kbd, nread,
                   iter_tt, hist, ops, sent, played, built, ctl, run, call>>

\* The wait times out: at once when the loop is behind schedule, else when
\* the wake instant is reached with no message in the channel.
RecvTimeout ==
    /\ pc = "recv"
    /\ tick_time.kind = "Time"
    /\ \/ ~HasRemaining
       \/ /\ chan = <<>>
          /\ kbd = "reading"
          /\ now >= tick_time.v
    /\ key' = Timeout
    /\ pc' = "check"
    /\ UNCHANGED <<now, outcome, state, tick_time, start_time, chan, kbd, nread,
                   iter_tt, hist, ops, sent, played, built, ctl, run, call>>

\* The channel is empty and its Sender dropped: recv_timeout fails with
\* Disconnected, and recv with RecvError, which `?' returns from state_loop.
RecvDisconnected ==
    /\ pc = "recv"
    /\ tick_time.kind = "Time" => HasRemaining
    /\ chan = <<>>
    /\ kbd = "returned"
    /\ IF tick_time.kind = "Time"
       THEN /\ key' = Disconnected
            /\ pc' = "check"
            /\ UNCHANGED outcome
       ELSE /\ key' = Unread
            /\ pc' = "done"
            /\ outcome' = "RecvError"
    /\ UNCHANGED <<now, state, tick_time, start_time, chan, kbd, nread,
                   iter_tt, hist, ops, sent, played, built, ctl, run, call>>

\* Lines 108-110: the tick is unscheduled once its instant has passed.
Check ==
    /\ pc = "check"
    /\ IF now >= tick_time.v
       THEN /\ tick_time' = TT_None
            /\ ops' = Push(ops, TimerOp("expire", tick_time, now, TT_None))
       ELSE UNCHANGED <<tick_time, ops>>
    /\ pc' = "handle"
    /\ UNCHANGED <<now, outcome, state, start_time, key, chan, kbd, nread,
                   iter_tt, hist, sent, played, built, ctl, run, call>>

\* Line 118: a message was received; the active mode's keypress handler runs.
HandleKeypress ==
    /\ pc = "handle"
    /\ key.kind \in {"Key", "NoKey"}
    /\ Dispatch("keypress", AppState_keypress(state, key, now))
    /\ UNCHANGED <<now, start_time, key, chan, kbd, nread, iter_tt, sent,
                   played, built, ctl, run, call>>

\* Line 120: the receive failed; the active mode's tick handler runs.
Tick ==
    /\ pc = "handle"
    /\ key.kind \in {"Timeout", "Disconnected"}
    /\ Dispatch("tick", AppState_tick(state))
    /\ UNCHANGED <<now, start_time, key, chan, kbd, nread, iter_tt,
                   sent, built, ctl, run, call>>

HandleTick == Tick /\ UNCHANGED played

Next ==
    \/ Advance
    \/ KbdRead
    \/ KbdEOF
    \/ LoopStart
    \/ RecvKey
    \/ RecvTimeout
    \/ RecvDisconnected
    \/ Check
    \/ HandleKeypress
    \/ HandleTick

Spec == Init /\ [][Next]_vars

-----------------------------------------------------------------------------
(* The BeatSpec constructors, each called once on an input drawn at the    *)
(* start, before the scheduler runs; make_divisible is then called on the  *)
(* grid, with a target drawn at the start.                                 *)

SeqsUpTo(S, n) == UNION {[1..k -> S] : k \in 0..n}

\* The crossbeat lists given to from_crossbeats, 3:5:17 among them, and
\* 4:1073741825, whose least common multiple is 2^32 + 4.
BeatLists ==
    SeqsUpTo(1..MaxBeat, MaxBeats) \cup {<<3, 5, 17>>, <<4, 1073741825>>}

\* The characters of the rhythm specs: 0 2 9 . ! x :
SpecChars == {48, 50, 57, 46, 33, 120, 58}

\* The rhythm specs given to from_rhythmspec, "02!1212" among them.
RhythmSpecs ==
    SeqsUpTo(SpecChars, MaxSpecLen) \cup {<<48, 50, 33, 49, 50, 49, 50>>}

Pending == [kind |-> "pending"]

\* The (beats, subdiv) pairs given to from_subdiv; the product of the last
\* two is 2^32 and 2^32 + 4.
SubdivPairs ==
    ((1..MaxBeat) \X (1..MaxSubdiv)) \cup {<<65536, 65536>>, <<4, 1073741825>>}

Inputs ==
    {[fn |-> "from_subdiv", arg |-> a] : a \in SubdivPairs}
    \cup {[fn |-> "from_crossbeats", arg |-> l] : l \in BeatLists}
    \cup {[fn |-> "from_rhythmspec", arg |-> r] : r \in RhythmSpecs}

Calls ==
    {[fn |-> i.fn, arg |-> i.arg, ret |-> Pending, target |-> t, div |-> Pending,
      overflow_checks |-> c] :
        i \in Inputs, t \in 1..MaxTarget, c \in BOOLEAN}

InitBuild ==
    /\ now = 0
    /\ pc = "start"
    /\ outcome = "none"
    /\ state = MetronomeState_new(rhythm, DEF_VOLUME, DEF_TEMPO)
    /\ call = NoModeCall
    /\ tick_time = StateManager_new(0)
    /\ start_time = 0
    /\ key = Unread
    /\ chan = <<>>
    /\ kbd = "reading"
    /\ nread = 0
    /\ iter_tt = TT_None
    /\ hist = NoCall
    /\ ops = <<NoOp, NoOp>>
    /\ sent = <<>>
    /\ played = <<>>
    /\ built \in Calls
    /\ ctl = NoCtl
    /\ run = NoRun

Returns(fn, ret) ==
    /\ built.fn = fn
    /\ built.ret = Pending
    /\ built' = [built EXCEPT !.ret = ret]
    /\ UNCHANGED <<now, pc, outcome, state, tick_time, start_time, key, chan, kbd,
                   nread, iter_tt, hist, ops, sent, played, ctl, run, call>>

Call_from_subdiv ==
    Returns("from_subdiv", from_subdiv(built.arg[1], built.arg[2]))

Call_from_crossbeats ==
    Returns("from_crossbeats", from_crossbeats(built.arg))

Call_from_rhythmspec ==
    Returns("from_rhythmspec", from_rhythmspec(built.arg))

Call_make_divisible ==
    /\ built.ret # Pending
    /\ built.ret.kind = "Ok"
    /\ built.div = Pending
    /\ built' = [built EXCEPT !.div = make_divisible(built.ret, built.target)]
    /\ UNCHANGED <<now, pc, outcome, state, tick_time, start_time, key, chan, kbd,
                   nread, iter_tt, hist, ops, sent, played, ctl, run, call>>

NextBuild ==
    \/ Call_from_subdiv
    \/ Call_from_crossbeats
    \/ Call_from_rhythmspec
    \/ Call_make_divisible

SpecBuild == InitBuild /\ [][NextBuild]_vars

-----------------------------------------------------------------------------
(* A ControllerState on its own: bytes are sent to it one at a time.  Its  *)
(* mapping is the one of init_keybindings, or a small table in which a     *)
(* binding begins a longer one.                                            *)

\* The bytes sent: ESC [ D X q
KeyBytes == {27, 91, 68, 88, 113}

Mappings ==
    {init_keybindings,
     << <<(<<27>>), Msg("Pause", 0)>>, <<(<<27, 91>>), Msg("Play", 0)>> >>,
     << <<(<<27, 91>>), Msg("Play", 0)>>, <<(<<27>>), Msg("Pause", 0)>> >>,
     << <<(<<27, 91, 68>>), Msg("Sync", 0)>>, <<(<<27, 91>>), Msg("Toggle", 0)>>,
        <<(<<113>>), Msg("Quit", 0)>> >>}

\* The scheduler has not started; the initial mode holds the grid bs.
IdleWith(bs) ==
    /\ now = 0
    /\ pc = "start"
    /\ outcome = "none"
    /\ state = MetronomeState_new(bs, DEF_VOLUME, DEF_TEMPO)
    /\ tick_time = StateManager_new(0)
    /\ start_time = 0
    /\ key = Unread
    /\ chan = <<>>
    /\ kbd = "reading"
    /\ nread = 0
    /\ iter_tt = TT_None
    /\ hist = NoCall
    /\ ops = <<NoOp, NoOp>>
    /\ sent = <<>>
    /\ played = <<>>

Idle == IdleWith(rhythm)

InitKeys ==
    /\ Idle
    /\ call = NoModeCall
    /\ built = NoBuild
    /\ ctl \in {[NoCtl EXCEPT !.mapping = m] : m \in Mappings}
    /\ run = NoRun

\* One call of send; res is the BindingState that get_binding gave it.
Send ==
    \E k \in KeyBytes :
        /\ Len(ctl.fed) < MaxFeed
        /\ ctl' = [mapping |-> ctl.mapping,
                   fed |-> Append(ctl.fed, k),
                   prev |-> ctl.partial,
                   partial |-> send(ctl.mapping, ctl.partial, k).partial,
                   msg |-> send(ctl.mapping, ctl.partial, k).msg,
                   res |-> get_binding(Append(ctl.partial, k), ctl.mapping).kind]
        /\ UNCHANGED <<now, pc, outcome, state, tick_time, start_time, key, chan,
                       kbd, nread, iter_tt, hist, ops, sent, played, built,
                   run, call>>

NextKeys == Send

SpecKeys == InitKeys /\ [][NextKeys]_vars

-----------------------------------------------------------------------------
(* config.rs and main.rs: the command line is parsed, the terminal is put  *)
(* in raw mode, the first mode is made, the scheduler runs and the         *)
(* terminal is put back.  The scheduler is taken as a whole here: it ends  *)
(* in one of the outcomes of state_loop.                                   *)

\* The argument of -c: absent, not a list of numbers, or a list of numbers.
CrossArgs ==
    {[present |-> FALSE, parses |-> TRUE, beats |-> <<>>],
     [present |-> TRUE, parses |-> FALSE, beats |-> <<>>],
     [present |-> TRUE, parses |-> TRUE, beats |-> <<3, 2>>],
     [present |-> TRUE, parses |-> TRUE, beats |-> <<0>>]}

\* The argument of -s: absent, "0." or "0x".
RhythmArgs ==
    {[present |-> FALSE, str |-> <<>>],
     [present |-> TRUE, str |-> <<48, 46>>],
     [present |-> TRUE, str |-> <<48, 120>>]}

\* A command line: whether it has an option getopts does not know; its free
\* arguments (none, one that parses, one that does not, more than one); the
\* arguments of -c, -s and -l; the flags -h and -v.
Args ==
    [unknown : BOOLEAN, free : {"none", "ok", "bad", "many"}, c : CrossArgs,
     s : RhythmArgs, l : {"absent", "ok", "bad"}, h : BOOLEAN, v : BOOLEAN]

SWITCHES == <<"c", "s", "l", "h", "v">>

\* matches.opt_present
opt_present(args, sw) ==
    CASE sw = "c" -> args.c.present
      [] sw = "s" -> args.s.present
      [] sw = "l" -> args.l # "absent"
      [] sw = "h" -> args.h
      [] sw = "v" -> args.v

\* The action of a switch: "None" for Ok(None), "DontRun" for
\* Ok(Some(DontRun)), "Err", or "Panic" when the constructor panics.
action(args, sw) ==
    CASE sw = "c" -> IF ~args.c.parses
                     THEN "Err"
                     ELSE IF from_crossbeats(args.c.beats).kind # "Ok"
                     THEN "Panic"
                     ELSE "None"
      [] sw = "s" -> IF from_rhythmspec(args.s.str).kind = "Err"
                     THEN "Err"
                     ELSE "None"
      [] sw = "l" -> IF args.l = "bad" THEN "Err" ELSE "None"
      [] sw = "h" -> "DontRun"
      [] sw = "v" -> "DontRun"

\* Faulty variant: the error of a switch's action is dropped.
RECURSIVE switches_lenient(_, _)
switches_lenient(args, i) ==
    IF i > Len(SWITCHES)
    THEN "Run"
    ELSE IF ~opt_present(args, SWITCHES[i])
              \/ action(args, SWITCHES[i]) \in {"None", "Err"}
    THEN switches_lenient(args, i + 1)
    ELSE action(args, SWITCHES[i])

\* The loop over SWITCHES from the i-th switch on.
RECURSIVE switches_from(_, _)
switches_from(args, i) ==
    IF i > Len(SWITCHES)
    THEN "Run"
    ELSE IF ~opt_present(args, SWITCHES[i]) \/ action(args, SWITCHES[i]) = "None"
    THEN switches_from(args, i + 1)
    ELSE action(args, SWITCHES[i])

\* Faulty variant of Config_new, with the lenient loop.
Config_new_lenient(args) ==
    IF args.unknown
    THEN "Err"
    ELSE IF args.free \in {"bad", "many"}
    THEN "Err"
    ELSE switches_lenient(args, 1)

\* Config::new: "Run", "DontRun", "Err" or "Panic".
Config_new(args) ==
    IF args.unknown
    THEN "Err"
    ELSE IF args.free \in {"bad", "many"}
    THEN "Err"
    ELSE switches_from(args, 1)

\* How state_loop ends: it returns Ok or an error, or panics.
LoopOutcomes == {"Ok", "RecvError", "InvalidState", "DivideByZero", "DurationOverflow"}

InitRun ==
    /\ Idle
    /\ call = NoModeCall
    /\ built = NoBuild
    /\ ctl = NoCtl
    /\ run \in {[pc |-> "config", args |-> a, cfg |-> "none", term |-> "cooked",
                  s |-> "none", result |-> "none", raw_seen |-> FALSE,
                  loop_seen |-> FALSE, restore_failed |-> FALSE] : a \in Args}

\* run has ended with the given result.
Ended(r, result) == [r EXCEPT !.pc = "done", !.result = result]

\* Lines 71-72 and 81.
Configure ==
    /\ run.pc = "config"
    /\ LET cfg == Config_new(run.args)
           r == [run EXCEPT !.cfg = cfg]
       IN  run' = CASE cfg = "Run" -> [r EXCEPT !.pc = "termios"]
                    [] cfg = "DontRun" -> Ended(r, "Ok")
                    [] cfg = "Err" -> Ended(r, "Err")
                    [] cfg = "Panic" -> Ended(r, "Panic")
    /\ UNCHANGED <<now, pc, outcome, state, tick_time, start_time, key, chan,
                   kbd, nread, iter_tt, hist, ops, sent, played, built, ctl,
                   call>>

\* Line 73, init_termios: from_fd may panic and tcsetattr may fail, and
\* then the terminal is as it was.
InitTermios ==
    /\ run.pc = "termios"
    /\ \E o \in {"raw", "Err", "Panic"} :
          run' = IF o = "raw"
                 THEN [run EXCEPT !.pc = "new_state", !.term = "raw",
                                  !.raw_seen = TRUE]
                 ELSE Ended(run, o)
    /\ UNCHANGED <<now, pc, outcome, state, tick_time, start_time, key, chan,
                   kbd, nread, iter_tt, hist, ops, sent, played, built, ctl,
                   call>>

\* Line 74: MetronomeState::new(&cfg.rhythm)? gives the first mode, or an
\* error with which run returns.
NewState ==
    /\ run.pc = "new_state"
    /\ \E ok \in BOOLEAN :
          run' = IF ok THEN [run EXCEPT !.pc = "loop"] ELSE Ended(run, "Err")
    /\ UNCHANGED <<now, pc, outcome, state, tick_time, start_time, key, chan,
                   kbd, nread, iter_tt, hist, ops, sent, played, built, ctl,
                   call>>

\* Line 76: state_loop returns its Result into s, or panics.
StateLoop ==
    /\ run.pc = "loop"
    /\ \E o \in LoopOutcomes :
          run' = IF o \in {"Ok", "RecvError"}
                 THEN [run EXCEPT !.pc = "cleanup", !.loop_seen = TRUE,
                                  !.s = IF o = "Ok" THEN "Ok" ELSE "Err"]
                 ELSE Ended([run EXCEPT !.loop_seen = TRUE], "Panic")
    /\ UNCHANGED <<now, pc, outcome, state, tick_time, start_time, key, chan,
                   kbd, nread, iter_tt, hist, ops, sent, played, built, ctl,
                   call>>

\* Lines 77-78: cleanup_termios(&termios).unwrap(), then return s.
Cleanup ==
    /\ run.pc = "cleanup"
    /\ \E ok \in BOOLEAN :
          run' = IF ok
                 THEN Ended([run EXCEPT !.term = "cooked"], run.s)
                 ELSE Ended([run EXCEPT !.restore_failed = TRUE], "Panic")
    /\ UNCHANGED <<now, pc, outcome, state, tick_time, start_time, key, chan,
                   kbd, nread, iter_tt, hist, ops, sent, played, built, ctl,
                   call>>

NextRun ==
    \/ Configure
    \/ InitTermios
    \/ NewState
    \/ StateLoop
    \/ Cleanup

SpecRun == InitRun /\ [][NextRun]_vars

-----------------------------------------------------------------------------
(* The modes on their own: the handlers of the active mode are called in   *)
(* any order, at instants that do not decrease, and a To transition that a *)
(* handler returns replaces the active mode.  The calls end with an Exit   *)
(* or with a panic.                                                        *)

\* The keys given to keypress: the bytes 0 1 3 9 h l j k , x and NoKey.
ModeKeys ==
    {Key(b) : b \in {48, 49, 51, 57, 104, 108, 106, 107, 44, 120}} \cup {NoKey}

\* The grids the initial mode is built with: the default one, and two beats
\* of two subdivisions.
ModeRhythms == {rhythm, from_subdiv(2, 2)}

InitModes ==
    /\ \E bs \in ModeRhythms : IdleWith(bs)
    /\ built = NoBuild
    /\ ctl = NoCtl
    /\ run = NoRun
    /\ call = NoModeCall

ElapseModes == Elapse(MaxModeTime)

\* The handler has returned r: the call is recorded, and the mode is the one
\* of a To transition, or the called mode as the handler left it.
Returned(op, k, r) ==
    /\ outcome = "none"
    /\ nread < MaxCalls
    /\ nread' = nread + 1
    /\ call' = [op |-> op, key |-> k, at |-> now, state |-> state, ret |-> r]
    /\ state' = IF r.fail = "none" /\ r.trans.kind = "To"
                THEN r.trans.state
                ELSE r.state
    /\ outcome' = IF r.fail # "none"
                  THEN r.fail
                  ELSE IF r.trans.kind = "Exit" THEN "Ok" ELSE "none"
    /\ UNCHANGED <<now, pc, tick_time, start_time, key, chan, kbd, iter_tt, hist,
                   ops, sent, played, built, ctl, run>>

CallKeypress == \E k \in ModeKeys : Returned("keypress", k, AppState_keypress(state, k, now))

CallTick == Returned("tick", Timeout, AppState_tick(state))

NextModes ==
    \/ ElapseModes
    \/ CallKeypress
    \/ CallTick

SpecModes == InitModes /\ [][NextModes]_vars

-----------------------------------------------------------------------------
(* The same program with stdin silent: the keyboard thread stays blocked   *)
(* in read_exact, and the cells the Metronome plays are recorded.          *)

AdvanceQuiet == Elapse(MaxQuietTime)

HandleTickPlayed ==
    /\ Tick
    /\ played' = IF state.mode = "Metronome"
                 THEN Append(played, state.tick_number)
                 ELSE played

NextQuiet ==
    \/ AdvanceQuiet
    \/ LoopStart
    \/ RecvTimeout
    \/ Check
    \/ HandleTickPlayed

SpecQuiet == Init /\ [][NextQuiet]_vars

-----------------------------------------------------------------------------
(* The same program at a keyboard that gives no Pause and no Toggle.       *)

\* The bytes stdin may deliver here: l ,
SteadyBytes == {108, 44}

KbdReadSteady == Read(SteadyBytes) /\ UNCHANGED sent

NextSteady ==
    \/ Advance
    \/ KbdReadSteady
    \/ KbdEOF
    \/ LoopStart
    \/ RecvKey
    \/ RecvTimeout
    \/ RecvDisconnected
    \/ Check
    \/ HandleKeypress
    \/ HandleTick

SpecSteady == Init /\ [][NextSteady]_vars

-----------------------------------------------------------------------------
(* The same program with every message stamped with the instant at which   *)
(* the keyboard thread sent it.                                            *)

\* The bytes stdin may deliver here: p . ,
ArrivalBytes == {112, 46, 44}

KbdReadAt == Read(ArrivalBytes) /\ sent' = Append(sent, now)

KbdEOFAt == ReadFails /\ sent' = Append(sent, now)

RecvKeyAt == Recv /\ sent' = Tail(sent)

NextArrival ==
    \/ Advance
    \/ KbdReadAt
    \/ KbdEOFAt
    \/ LoopStart
    \/ RecvKeyAt
    \/ RecvTimeout
    \/ RecvDisconnected
    \/ Check
    \/ HandleKeypress
    \/ HandleTick

SpecArrival == Init /\ [][NextArrival]_vars

-----------------------------------------------------------------------------
(* Properties *)

Max0(x) == IF x > 0 THEN x ELSE 0

\* C1: the tick handler runs only in an iteration whose timer was Scheduled
\* when it began and whose wake instant has been reached; no tick fires while
\* the timer is Unscheduled or Paused; the keypress handler runs only on a
\* received byte or NoKey.
C1_TickOnlyAtWakeInstant ==
    /\ hist.op = "tick" =>
          /\ hist.iter_tt.kind = "Time"
          /\ hist.at >= hist.iter_tt.v
    /\ hist.op = "keypress" => hist.key.kind \in {"Key", "NoKey"}

\* C2: in every mode the keypress handler answers NoKey with Exit.
C2_NoKeyExits ==
    (hist.op = "keypress" /\ hist.key.kind = "NoKey") => hist.trans = "Exit"

\* C3: Pause turns Scheduled(t) into Paused(max(0, t - now)) and leaves a
\* Paused or Unscheduled timer as it was.
C3_Pause ==
    ops[2].name = "Pause" =>
        ops[2].post = IF ops[2].pre.kind = "Time"
                      THEN TT_Paused(Max0(ops[2].pre.v - ops[2].at))
                      ELSE ops[2].pre

\* A running timer is paused, and the paused timer is paused again.
C3_Witness ==
    /\ ops[1].name = "Pause" /\ ops[1].pre.kind = "Time"
    /\ ops[2].name = "Pause" /\ ops[2].pre.kind = "Paused"
    /\ tick_time = ops[1].post

\* C4: Play resumes a paused timer, and on a Scheduled timer it changes
\* nothing and the program keeps running.
C4_PlayWhileRunning ==
    (hist.op = "keypress" /\ hist.cmd = CmdResume) =>
        /\ hist.pre.kind = "Paused" => hist.post = TT_Time(hist.at + hist.pre.v)
        /\ hist.pre.kind = "Time" =>
              /\ hist.post = hist.pre
              /\ tick_time = hist.pre
              /\ outcome = "none"

\* C5: the InvalidState failure (Resume on a timer that is not paused, Toggle
\* on an Unscheduled timer) is never reached.
C5_NoInvalidState == outcome # "InvalidState"

\* C6: Toggle acts as Resume on a Paused timer and as Pause on a Scheduled
\* one, and two Toggles in a row give back the kind of state they began from.
C6_Toggle ==
    /\ ops[2].name = "Toggle" =>
          /\ ops[2].pre.kind = "Paused" =>
                ops[2].post = TT_Time(ops[2].at + ops[2].pre.v)
          /\ ops[2].pre.kind = "Time" =>
                ops[2].post = TT_Paused(Max0(ops[2].pre.v - ops[2].at))
    /\ (/\ ops[1].name = "Toggle"
        /\ ops[2].name = "Toggle"
        /\ ops[1].pre.kind \in {"Time", "Paused"}) =>
          /\ ops[2].pre = ops[1].post
          /\ ops[2].post.kind = ops[1].pre.kind

\* A paused timer is toggled twice in a row.
C6_Witness ==
    /\ ops[1].name = "Toggle" /\ ops[1].pre.kind = "Paused"
    /\ ops[2].name = "Toggle" /\ ops[2].post.kind = "Paused"
    /\ tick_time = ops[2].post

\* Pause of a Scheduled timer directly followed by Resume at the same instant.
PauseThenResume ==
    /\ ops[1].name = "Pause" /\ ops[1].pre.kind = "Time"
    /\ ops[2].name = "Resume" /\ ops[2].pre = ops[1].post
    /\ ops[2].at = ops[1].at

\* C7 as stated: for any Scheduled(t), Pause then Resume with no time elapsing
\* gives Scheduled(t) again.
C7_PauseResumeAnyDeadline ==
    PauseThenResume => ops[2].post = ops[1].pre

\* C7 as amended: Resume turns Paused(remaining) into Scheduled(now +
\* remaining), and for Scheduled(t) with t not earlier than the instant of the
\* Pause, Pause then Resume with no time elapsing gives Scheduled(t) again.
C7_PauseResume ==
    /\ (ops[2].name = "Resume" /\ ops[2].pre.kind = "Paused") =>
          ops[2].post = TT_Time(ops[2].at + ops[2].pre.v)
    /\ (PauseThenResume /\ ops[1].pre.v >= ops[1].at) =>
          ops[2].post = ops[1].pre

\* A timer with time left is paused and resumed at one instant.
C7_Witness ==
    /\ PauseThenResume
    /\ ops[1].pre.v > ops[1].at
    /\ tick_time = ops[2].post

\* C8: Set(d) leaves the timer Scheduled(now + d) whatever it was before, and
\* Unset leaves it Unscheduled.
C8_SetUnset ==
    /\ (hist.op # "none" /\ hist.cmd.kind = "Set") =>
          hist.post = TT_Time(hist.at + hist.cmd.d)
    /\ (hist.op # "none" /\ hist.cmd.kind = "Unset") =>
          hist.post = TT_None

\* Set is applied to a paused timer.
C8_Witness ==
    /\ hist.cmd.kind = "Set"
    /\ hist.pre.kind = "Paused"
    /\ tick_time.kind = "Time"

\* C9: the first mode starts with an immediate tick scheduled; a step that
\* moves to a new mode leaves the timer Scheduled at the instant of the step,
\* or as the step's own timer command sets it; and the new mode's first
\* iteration begins with the tick due.
C9_TransitionSchedulesTick ==
    /\ (hist.op = "none" /\ pc = "start") => tick_time = TT_Time(0)
    /\ hist.trans = "To" =>
          hist.post = CASE hist.cmd.kind = "None" -> TT_Time(hist.at)
                        [] hist.cmd.kind = "Set" -> TT_Time(hist.at + hist.cmd.d)
                        [] hist.cmd.kind = "Unset" -> TT_None
    /\ (hist.trans = "To" /\ pc \in {"recv", "check", "handle"}) =>
          /\ iter_tt.kind = "Time"
          /\ iter_tt.v <= start_time

\* Tap mode, just entered, is about to receive its initialization tick.
C9_Witness ==
    /\ hist.trans = "To"
    /\ hist.mode = "Metronome"
    /\ state.mode = "Tap"
    /\ pc = "handle"
    /\ key = Timeout

\* C10: state_loop ends only on a handler's Exit or on a failure of the
\* input channel.
C10_LoopEndsOnExitOrChannelFailure ==
    pc = "done" =>
        \/ outcome = "Ok" /\ hist.trans = "Exit"
        \/ outcome = "RecvError"

\* C11: an iteration that reaches the wait after the wake instant does not
\* wait for input: it can time out at once whatever the channel holds, its
\* receive gives Timeout, and the handler it runs is the tick handler.
C11_LateIterationTicks ==
    (iter_tt.kind = "Time" /\ iter_tt.v < start_time) =>
        /\ pc = "recv" => ENABLED RecvTimeout
        /\ pc \in {"check", "handle"} => key = Timeout
        /\ pc \in {"start", "done"} => hist.op = "tick"

\* A late iteration has run the tick handler while a byte waited.
C11_Witness ==
    /\ iter_tt.kind = "Time" /\ iter_tt.v < start_time
    /\ pc = "start"
    /\ hist.op = "tick"
    /\ chan # <<>>

\* C12 as stated: when the tick for a wake instant has fired, no byte sent
\* strictly before that instant is still waiting in the channel.
C12_ByteBeforeTick ==
    hist.op = "tick" => \A i \in DOMAIN sent : sent[i] >= hist.iter_tt.v

\* C12 as amended: in an iteration that reaches the wait no later than the wake
\* instant, a waiting byte is received and the wait cannot time out; the tick
\* such an iteration fires leaves no byte behind that was sent strictly before
\* the wake instant.
C12_ByteBeforeTickOnTime ==
    /\ (pc = "recv" /\ HasRemaining /\ chan # <<>>) =>
          /\ ~ENABLED RecvTimeout
          /\ ENABLED RecvKeyAt
    /\ (hist.op = "tick" /\ pc \in {"start", "done"}
            /\ hist.iter_tt.v >= start_time) =>
          \A i \in DOMAIN sent : sent[i] >= hist.iter_tt.v

\* The wake instant is reached in an iteration that began on time, with a byte
\* waiting that was sent before it.
C12_Witness ==
    /\ pc = "recv" /\ HasRemaining
    /\ now >= tick_time.v
    /\ chan # <<>>
    /\ sent[1] < tick_time.v

\* C13: with no keyboard input the k-th tick plays cell (k - 1) mod N of the
\* grid, N = 4 for the default grid; the tick index is the number of ticks
\* played mod N, so it is back at 0 after exactly N ticks; and every tick
\* schedules the next one a delay later.
C13_FullCycle ==
    /\ Len(rhythm.ticks) = 4
    /\ \A k \in DOMAIN played : played[k] = (k - 1) % Len(rhythm.ticks)
    /\ state.tick_number = Len(played) % Len(rhythm.ticks)
    /\ hist.op = "tick" =>
          /\ hist.cmd = CmdSet(get_delay(rhythm, DEF_TEMPO))
          /\ hist.post = TT_Time(hist.at + hist.cmd.d)
          /\ hist.cmd.d > 0

\* The fifth tick has played the downbeat again.
C13_Witness ==
    /\ played = <<0, 1, 2, 3, 0>>
    /\ state.tick_number = 1
    /\ tick_time.kind = "Time"

RECURSIVE Product(_)
Product(l) == IF l = <<>> THEN 1 ELSE Head(l) * Product(Tail(l))

LeastCommonMultiple(l) ==
    CHOOSE m \in 1..Product(l) :
        /\ \A i \in DOMAIN l : m % l[i] = 0
        /\ \A k \in 1..(m - 1) : \E i \in DOMAIN l : k % l[i] # 0

Built(fn) == built.fn = fn /\ built.ret # Pending

\* Whether a * b is below 2^32, found by dividing 2^32 - 1 by b.
ProductFits(a, b) ==
    b <= 1 \/ a <= 2 * (2147483647 \div b) + (2 * (2147483647 % b) + 1) \div b

\* Whether the least common multiple of acc and of l from its i-th number on
\* is below 2^32.
RECURSIVE LcmFitsFrom(_, _, _)
LcmFitsFrom(acc, l, i) ==
    \/ i > Len(l)
    \/ LET m == l[i] \div euclid(acc, l[i])
       IN  ProductFits(acc, m) /\ LcmFitsFrom(acc * m, l, i + 1)

\* The tick count of the grid asked for fits a u32.
TicksFit ==
    \/ built.fn = "from_subdiv" /\ ProductFits(built.arg[1], built.arg[2])
    \/ built.fn = "from_crossbeats" /\ LcmFitsFrom(1, built.arg, 1)
    \/ built.fn = "from_rhythmspec"

\* C15: from_subdiv(beats, subdiv) gives beats * subdiv ticks, which is the
\* least common multiple of 1, beats and beats * subdiv, with a beat of subdiv
\* ticks, and the same grid as from_crossbeats on [beats, beats * subdiv].
C15_Subdivision ==
    (Built("from_subdiv") /\ TicksFit) =>
        LET beats == built.arg[1]
            subdiv == built.arg[2]
        IN  /\ built.ret.kind = "Ok"
            /\ Len(built.ret.ticks) = beats * subdiv
            /\ beats * subdiv = LeastCommonMultiple(<<1, beats, beats * subdiv>>)
            /\ built.ret.beat_len = subdiv
            /\ built.ret = from_crossbeats(<<beats, beats * subdiv>>)

\* from_subdiv(3, 2) has given six ticks with a beat of two.
C15_Witness ==
    /\ Built("from_subdiv")
    /\ built.arg = <<3, 2>>
    /\ Len(built.ret.ticks) = 6
    /\ built.ret.beat_len = 2

\* C16: in the grid of n ticks that from_crossbeats builds from a non-empty
\* list, tick t is Beep(i) for the least index i of [1, b1, ..., bk] whose beat
\* b has t mod (n / b) = 0, and Rest when there is no such index.
C16_LowestIndexWins ==
    (Built("from_crossbeats") /\ built.arg # <<>> /\ TicksFit) =>
        LET list == <<1>> \o built.arg
            n == Len(built.ret.ticks)
            owners(t) == {i \in 0..(Len(list) - 1) : t % (n \div list[i + 1]) = 0}
            least(S) == CHOOSE i \in S : \A j \in S : i <= j
        IN  /\ built.ret.kind = "Ok"
            /\ \A t \in 0..(n - 1) :
                  built.ret.ticks[t + 1] =
                      IF owners(t) = {} THEN Rest ELSE Beep(least(owners(t)))

\* 3:6 has been built: beats 3 and 6 coincide on ticks 2 and 4, where the
\* beat of 3 wins.
C16_Witness ==
    /\ Built("from_crossbeats")
    /\ built.arg = <<3, 6>>
    /\ built.ret.ticks = <<Beep(0), Beep(2), Beep(1), Beep(2), Beep(1), Beep(2)>>

\* C17: in the grid from_crossbeats builds from a non-empty list, tick 0 is
\* Beep(0) and no other tick is.
C17_DownbeatOnlyAtStart ==
    (Built("from_crossbeats") /\ built.arg # <<>> /\ TicksFit) =>
        /\ built.ret.kind = "Ok"
        /\ built.ret.ticks[1] = Beep(0)
        /\ \A t \in 2..Len(built.ret.ticks) : built.ret.ticks[t] # Beep(0)

\* 2:4 has been built, with the downbeat first and a later tick of each beat.
C17_Witness ==
    /\ Built("from_crossbeats")
    /\ built.arg = <<2, 4>>
    /\ built.ret.ticks = <<Beep(0), Beep(2), Beep(1), Beep(2)>>

\* C18: from_crossbeats on a non-empty list gives as many ticks as the least
\* common multiple of 1 and the list, with a beat of that number divided by
\* the first beat of the list; 3:5:17 gives 255 ticks with a beat of 85.
C18_LcmTicks ==
    (Built("from_crossbeats") /\ built.arg # <<>> /\ TicksFit) =>
        /\ built.ret.kind = "Ok"
        /\ Len(built.ret.ticks) = LeastCommonMultiple(<<1>> \o built.arg)
        /\ built.ret.beat_len = Len(built.ret.ticks) \div built.arg[1]
        /\ built.arg = <<3, 5, 17>> =>
              /\ Len(built.ret.ticks) = 255
              /\ built.ret.beat_len = 85

\* 3:5:17 has been built.
C18_Witness ==
    /\ Built("from_crossbeats")
    /\ built.arg = <<3, 5, 17>>
    /\ built.ret.kind = "Ok"
    /\ Len(built.ret.ticks) = 3 * 5 * 17

\* C19: from_crossbeats on the empty list gives the one-tick grid [Beep(0)].
C19_EmptyListGivesOneTick ==
    (Built("from_crossbeats") /\ built.arg = <<>>) =>
        /\ built.ret.kind = "Ok"
        /\ built.ret.ticks = <<Beep(0)>>

\* The ticks a rhythm spec of digits, '.' and '!' stands for.
RECURSIVE TicksOf(_)
\* The characters a rhythm spec is made of: the digits, '.' and '!'.
IsSpecChar(c) == c \in (48..57) \cup {46, 33}

TicksOf(r) ==
    IF r = <<>>
    THEN <<>>
    ELSE IF Head(r) = 33
    THEN TicksOf(Tail(r))
    ELSE <<IF Head(r) = 46 THEN Rest ELSE Beep(Head(r) - 48)>> \o TicksOf(Tail(r))

\* C20: from_rhythmspec on a string of digits, '.' and '!' gives one tick per
\* digit and per '.', in order, and none per '!'; beat_len is the number of
\* ticks that come before the last '!', or 1 when there is no '!'; "02!1212"
\* gives 6 ticks with a beat of 2.
C20_RhythmSpec ==
    (Built("from_rhythmspec") /\ \A i \in DOMAIN built.arg : IsSpecChar(built.arg[i])) =>
        LET r == built.arg
            marks == {i \in DOMAIN r : r[i] = 33}
            last == CHOOSE i \in marks : \A j \in marks : j <= i
        IN  /\ built.ret.kind = "Ok"
            /\ built.ret.ticks = TicksOf(r)
            /\ built.ret.beat_len =
                  IF marks = {} THEN 1 ELSE Len(TicksOf(SubSeq(r, 1, last - 1)))
            /\ r = <<48, 50, 33, 49, 50, 49, 50>> =>
                  /\ Len(built.ret.ticks) = 6
                  /\ built.ret.beat_len = 2

\* C21: from_rhythmspec on a string with a character other than a digit, '.'
\* or '!' gives an error that names the first such character, and no grid;
\* on a string of those characters alone it gives a grid.
C21_UnknownCharacter ==
    Built("from_rhythmspec") =>
        LET r == built.arg
            bad == {i \in DOMAIN r : ~IsSpecChar(r[i])}
            first == CHOOSE i \in bad : \A j \in bad : i <= j
        IN  IF bad # {}
            THEN /\ built.ret.kind = "Err"
                 /\ built.ret.ch = r[first]
                 /\ built.ret.ticks = <<>>
            ELSE built.ret.kind = "Ok"

\* "0:x" has been refused for its ':'.
C21_Witness ==
    /\ Built("from_rhythmspec")
    /\ built.arg = <<48, 58, 120>>
    /\ built.ret.kind = "Err"
    /\ built.ret.ch = 58

\* make_divisible has returned.
Divided == built.div # Pending

GreatestCommonDivisor(a, b) ==
    IF a = 0
    THEN b
    ELSE CHOOSE d \in 1..a :
            /\ a % d = 0 /\ b % d = 0
            /\ \A e \in (d + 1)..a : a % e # 0 \/ b % e # 0

\* The factor of the claims: target / gcd(beat_len, target).
Factor == built.target \div GreatestCommonDivisor(built.ret.beat_len, built.target)

\* C22: make_divisible(target) gives a grid whose tick count is a multiple of
\* target, and is the original tick count times target / gcd(beat_len, target).
C22_MultipleOfTarget ==
    (Divided /\ TicksFit) =>
        /\ built.div.kind = "Ok"
        /\ Len(built.div.ticks) % built.target = 0
        /\ Len(built.div.ticks) = Len(built.ret.ticks) * Factor

\* C23: make_divisible(target) puts each original tick, in order, on every
\* factor-th tick of the result and a Rest on every other tick, and gives a
\* beat of the original beat_len times the factor.
C23_OnlyRestsInserted ==
    Divided =>
        /\ built.div.kind = "Ok"
        /\ Len(built.div.ticks) = Len(built.ret.ticks) * Factor
        /\ \A i \in DOMAIN built.ret.ticks :
              built.div.ticks[(i - 1) * Factor + 1] = built.ret.ticks[i]
        /\ \A j \in DOMAIN built.div.ticks :
              (j - 1) % Factor # 0 => built.div.ticks[j] = Rest
        /\ built.div.beat_len = built.ret.beat_len * Factor

\* The grid of from_subdiv(3, 2), whose beat is 2 ticks, has been made
\* divisible by 3: 18 ticks, the second original tick on the fourth.
C23_Witness ==
    /\ Divided
    /\ built.fn = "from_subdiv"
    /\ built.arg = <<3, 2>>
    /\ built.target = 3
    /\ Len(built.div.ticks) = 18
    /\ built.div.ticks[4] = Beep(2)
    /\ built.div.ticks[2] = Rest
    /\ built.div.beat_len = 6

\* C24: every grid a constructor or make_divisible returns has at least one
\* tick and a beat of at least one tick.
C24_NonEmptyGrid ==
    TicksFit =>
        /\ (Built("from_subdiv") \/ Built("from_crossbeats") \/ Built("from_rhythmspec")) =>
              (built.ret.kind = "Ok" =>
                  Len(built.ret.ticks) > 0 /\ built.ret.beat_len > 0)
        /\ Divided =>
              (built.div.kind = "Ok" =>
                  Len(built.div.ticks) > 0 /\ built.div.beat_len > 0)

\* C25: when beats * subdiv, or the least common multiple of the crossbeats,
\* does not fit a u32, the constructor ends in an error result: it neither
\* returns a grid nor panics.
C25_OverflowIsAnError ==
    ((Built("from_subdiv") \/ Built("from_crossbeats")) /\ ~TicksFit) =>
        built.ret.kind = "Err"

\* A send has been made.
Sent == ctl.fed # <<>>

\* The bytes the last send matched: the buffer before it and its byte.
Accumulated == Append(ctl.prev, ctl.fed[Len(ctl.fed)])

\* The bindings equal to the accumulated bytes.
Equal == {i \in DOMAIN ctl.mapping : ctl.mapping[i][1] = Accumulated}

\* The accumulated bytes are a strict prefix of some binding.
BeginsLonger ==
    \E i \in DOMAIN ctl.mapping :
        LET b == ctl.mapping[i][1]
        IN  /\ Len(Accumulated) < Len(b)
            /\ \A j \in 1..Len(Accumulated) : b[j] = Accumulated[j]

\* C26: send appends its byte to the buffer; on bytes equal to a binding it
\* empties the buffer and gives that binding's command; on bytes that begin
\* a binding and equal none it gives nothing and keeps them; otherwise it
\* empties the buffer and gives nothing.  With the built-in bindings ESC, '['
\* and 'D' give nothing, nothing, AdjustTempo(-TEMPO_ADJUST).
C26_Send ==
    Sent =>
        /\ IF Equal # {}
           THEN /\ ctl.partial = <<>>
                /\ \E i \in Equal : ctl.msg = ctl.mapping[i][2]
           ELSE IF BeginsLonger
           THEN ctl.partial = Accumulated /\ ctl.msg = NoMsg
           ELSE ctl.partial = <<>> /\ ctl.msg = NoMsg
        /\ ctl.mapping = init_keybindings =>
              /\ ctl.fed \in {<<27>>, <<27, 91>>} => ctl.msg = NoMsg
              /\ ctl.fed = <<27, 91, 68>> =>
                    ctl.msg = Msg("AdjustTempo", -TEMPO_ADJUST)

\* ESC, '[' and 'D' have been sent to a controller with the built-in bindings.
C26_Witness ==
    /\ ctl.mapping = init_keybindings
    /\ ctl.fed = <<27, 91, 68>>
    /\ ctl.prev = <<27, 91>>
    /\ ctl.msg = Msg("AdjustTempo", -1)
    /\ ctl.partial = <<>>

\* C27: after a send that resolved, to Complete or to Invalid, the buffer is
\* empty; with the built-in bindings ESC, '[', 'X' resolves to Invalid and a
\* 'q' sent next gives Quit.
C27_EmptyAfterResolution ==
    Sent =>
        /\ (Equal # {} \/ ~BeginsLonger) => ctl.partial = <<>>
        /\ ctl.mapping = init_keybindings =>
              /\ ctl.fed = <<27, 91, 88>> =>
                    Equal = {} /\ ~BeginsLonger /\ ctl.msg = NoMsg
              /\ ctl.fed = <<27, 91, 88, 113>> => ctl.msg = Msg("Quit", 0)

\* 'q' has been sent after ESC, '[', 'X'.
C27_Witness ==
    /\ ctl.mapping = init_keybindings
    /\ ctl.fed = <<27, 91, 88, 113>>
    /\ ctl.prev = <<>>
    /\ ctl.msg = Msg("Quit", 0)

\* C28: get_binding gives Complete exactly when some binding equals the
\* accumulated bytes, whether or not they also begin a longer binding, and
\* Start exactly when none equals them and they begin one.
C28_ExactMatchCompletes ==
    Sent =>
        /\ ctl.res = "Complete" <=> Equal # {}
        /\ ctl.res = "Start" <=> (Equal = {} /\ BeginsLonger)

\* ESC has been sent to a controller that binds ESC '[' and, after it, ESC:
\* the ESC is Complete at once.
C28_Witness ==
    /\ ctl.fed = <<27>>
    /\ Equal # {}
    /\ BeginsLonger
    /\ ctl.mapping[1][1] = <<27, 91>>
    /\ ctl.res = "Complete"
    /\ ctl.msg = Msg("Pause", 0)

\* run has returned or panicked.
RunEnded == run.pc = "done"

\* C29: when run ends after the terminal was put in raw mode, the terminal
\* is back in its prior mode, whichever way run ended (the restoring call
\* itself having worked where it was made).
C29_TerminalRestored ==
    (RunEnded /\ run.raw_seen /\ ~run.restore_failed) => run.term = "cooked"

\* The command line asks not to run, or is refused: an unknown option, a
\* malformed or surplus free argument, a malformed argument of -c, -s or -l,
\* or -h or -v.
Refused ==
    \/ run.args.unknown
    \/ run.args.free \in {"bad", "many"}
    \/ run.args.c.present /\ ~run.args.c.parses
    \/ run.args.s.present /\ \E i \in DOMAIN run.args.s.str : ~IsSpecChar(run.args.s.str[i])
    \/ run.args.l = "bad"
    \/ run.args.h
    \/ run.args.v

\* C30: on a command line that is refused or asks not to run, run ends
\* right after the configuration: the terminal is never put in raw mode and
\* state_loop never starts; and the terminal is in raw mode only after
\* Config::new has returned Run.
C30_ConfigFirst ==
    /\ Refused =>
          /\ ~run.raw_seen /\ run.term = "cooked"
          /\ ~run.loop_seen
          /\ run.pc \in {"config", "done"}
    /\ (run.raw_seen \/ run.loop_seen) => run.cfg = "Run"

\* run has ended on -h with a malformed -s, the terminal untouched.
C30_Witness ==
    /\ RunEnded
    /\ run.args.h
    /\ run.args.s.str = <<48, 120>>
    /\ run.result = "Err"
    /\ ~run.raw_seen
    /\ ~run.loop_seen

\* C40: after every send the buffer is empty or begins a binding longer than
\* itself; with the built-in bindings it never holds more than 2 bytes.
C40_PartialIsPrefix ==
    /\ \/ ctl.partial = <<>>
       \/ \E i \in DOMAIN ctl.mapping :
             LET b == ctl.mapping[i][1]
             IN  /\ Len(ctl.partial) < Len(b)
                 /\ \A j \in 1..Len(ctl.partial) : b[j] = ctl.partial[j]
    /\ ctl.mapping = init_keybindings => Len(ctl.partial) <= 2

\* ESC and '[' are in the buffer of a controller with the built-in bindings,
\* after an 'X' that was dropped.
C40_Witness ==
    /\ ctl.mapping = init_keybindings
    /\ ctl.fed = <<88, 27, 91>>
    /\ ctl.partial = <<27, 91>>

\* The last call was the keypress of Metronome mode on the byte b, with an
\* empty key buffer.
MetronomeKey(b) ==
    /\ call.op = "keypress"
    /\ call.state.mode = "Metronome"
    /\ call.state.partial = <<>>
    /\ call.key = Key(b)

Clamp(v, lo, hi) == IF v < lo THEN lo ELSE IF v > hi THEN hi ELSE v

\* C31: in Metronome mode an AdjustVolume command ('k', 'j') leaves the
\* volume one step up or down, clamped to [VOL_MIN, VOL_MAX], which is
\* [0, 1] in tenths; an AdjustTempo command ('l', 'h') leaves the tempo one
\* step up or down, clamped to [TEMPO_MIN, TEMPO_MAX] = [10, 300].
C31_Clamped ==
    /\ MetronomeKey(107) =>
          state.volume = Clamp(call.state.volume + VOL_ADJUST, VOL_MIN, VOL_MAX)
    /\ MetronomeKey(106) =>
          state.volume = Clamp(call.state.volume - VOL_ADJUST, VOL_MIN, VOL_MAX)
    /\ MetronomeKey(108) =>
          state.tempo = Clamp(call.state.tempo + TEMPO_ADJUST, 10, 300)
    /\ MetronomeKey(104) =>
          state.tempo = Clamp(call.state.tempo - TEMPO_ADJUST, 10, 300)
    /\ (MetronomeKey(107) \/ MetronomeKey(106)) => state.volume \in 0..10
    /\ (MetronomeKey(108) \/ MetronomeKey(104)) => state.tempo \in 10..300

\* 'l' was pressed at tempo 300, and the tempo is still 300.
C31_Witness ==
    /\ MetronomeKey(108)
    /\ call.state.tempo = TEMPO_MAX
    /\ state.mode = "Metronome"
    /\ state.tempo = TEMPO_MAX

\* The last call was a keypress of Tap mode that leaves the mode: any key
\* but ',' and Control-C.
LeavesTap ==
    /\ call.op = "keypress"
    /\ call.state.mode = "Tap"
    /\ call.key \notin {Key(44), Key(3)}

\* C32: leaving Tap mode returns to Metronome mode, for every sequence of tap
\* instants, with tempo a minute over the mean interval
\* (last - first) / (count - 1), or DEF_TEMPO with fewer than two taps.
C32_TapTempo ==
    LeavesTap =>
        /\ outcome = "none"
        /\ state.mode = "Metronome"
        /\ LET times == call.state.times
               count == Len(times)
           IN  state.tempo =
                   IF count < 2 THEN DEF_TEMPO
                   ELSE Minute \div ((times[count] - times[1]) \div (count - 1))

\* The last call was the keypress of Set mode on the digit d, which was
\* appended to the tempo being typed.
Appended(d) ==
    /\ call.op = "keypress"
    /\ call.state.mode = "Set"
    /\ call.key = Key(48 + d)
    /\ call.ret.state.tempo = call.state.tempo * 10 + d

\* C33: after a digit is appended in Set mode, the mode submits the typed
\* tempo to Metronome mode when tempo * 10 > TEMPO_MAX, and otherwise stays
\* in Set mode with the tempo typed so far.
C33_SubmitsWhenFull ==
    \A d \in 0..9 :
        Appended(d) =>
            LET typed == call.state.tempo * 10 + d
            IN  /\ outcome = "none"
                /\ state.tempo = typed
                /\ state.mode = IF typed * 10 > TEMPO_MAX THEN "Metronome" ELSE "Set"

\* The digit 1 was appended to 3: 31 is submitted, since 310 > TEMPO_MAX.
C33_Witness ==
    /\ Appended(1)
    /\ call.state.tempo = 3
    /\ state.mode = "Metronome"
    /\ state.tempo = 31

\* The last call was the keypress of Set mode on the byte b.
SetKey(b) ==
    /\ call.op = "keypress"
    /\ call.state.mode = "Set"
    /\ call.key = Key(b)

\* C39: in Set mode every digit key '0' to '9' appends its digit to the tempo
\* being typed, and a key that is no digit submits the tempo typed so far.
C39_EveryDigitAppends ==
    \A b \in 0..127 :
        SetKey(b) =>
            IF b \in 48..57
            THEN call.ret.state.tempo = call.state.tempo * 10 + (b - 48)
            ELSE b # 3 =>
                   /\ state.mode = "Metronome"
                   /\ state.tempo = call.state.tempo

\* C36: whenever Metronome mode is active, right after Tap or Set mode
\* included, the tempo lies in [TEMPO_MIN, TEMPO_MAX], so that the delay
\* between ticks is finite and positive.
C36_TempoInRange ==
    state.mode = "Metronome" => state.tempo \in TEMPO_MIN..TEMPO_MAX

\* The last call left Tap or Set mode for Metronome mode.
ReturnsToMetronome ==
    /\ call.op = "keypress"
    /\ call.state.mode \in {"Tap", "Set"}
    /\ call.ret.fail = "none"
    /\ call.ret.trans.kind = "To"

\* The last call entered Tap or Set mode from Metronome mode.
LeavesMetronome ==
    /\ call.op = "keypress"
    /\ call.state.mode = "Metronome"
    /\ call.ret.trans.kind = "To"

\* C38: Tap and Set mode are entered with the rhythm grid and the volume of
\* Metronome mode and keep them to the end, and the Metronome mode they
\* return to has the same grid and volume, and the tick index 0.
C38_RoundTrip ==
    /\ LeavesMetronome =>
          /\ state.mode \in {"Tap", "Set"}
          /\ state.rhythm = call.state.rhythm
          /\ state.volume = call.state.volume
    /\ (call.op # "none" /\ call.state.mode \in {"Tap", "Set"}) =>
          /\ state.rhythm = call.state.rhythm
          /\ state.volume = call.state.volume
    /\ ReturnsToMetronome =>
          /\ state.mode = "Metronome"
          /\ state.tick_number = 0

\* Metronome mode is back from Set mode with another tempo, a volume that is
\* not the default one and a grid that is not the default one.
C38_Witness ==
    /\ ReturnsToMetronome
    /\ call.state.mode = "Set"
    /\ state.tempo # DEF_TEMPO
    /\ state.volume # DEF_VOLUME
    /\ state.rhythm # rhythm

\* C34: NoKey is in the channel at most once, as the last message of a
\* keyboard thread that has returned, and once the loop has received it no
\* further receive is performed: no receive finds the channel disconnected.
C34_NoReceiveAfterNoKey ==
    /\ \A i \in DOMAIN chan :
          chan[i] = NoKey => (i = Len(chan) /\ kbd = "returned")
    /\ key.kind # "Disconnected"
    /\ outcome # "RecvError"

\* C35: with no Pause and no Toggle given, an iteration that begins in
\* Metronome mode begins with the timer Scheduled.
C35_AlwaysScheduled ==
    (pc = "start" /\ outcome = "none" /\ state.mode = "Metronome") =>
        tick_time.kind = "Time"

\* The last handler call entered Tap or Set mode, which is still active.
JustEntered ==
    /\ state.mode \in {"Tap", "Set"}
    /\ hist.op = "keypress"
    /\ hist.mode = "Metronome"
    /\ hist.trans = "To"

\* The last handler call was made in Tap or Set mode, which is still active.
CalledInMode ==
    /\ state.mode \in {"Tap", "Set"}
    /\ hist.mode = state.mode
    /\ hist.trans = "NoChange"

\* C37: the first handler called after Tap or Set mode is entered is the
\* tick of the initial draw, and after any call made in the mode an iteration
\* begins with the timer Unscheduled, so that no second tick fires.
C37_OneTickPerEntry ==
    /\ (JustEntered /\ pc = "handle") => key.kind \in {"Timeout", "Disconnected"}
    /\ (CalledInMode /\ pc = "start" /\ outcome = "none") => tick_time.kind = "None"

=============================================================================
